---- MODULE Spec2Model ----
(***************************************************************************)
(* Model of the argpars library (src/src/lib.rs): the ArgsObj registry,    *)
(* its mutations (add_argument, no_default_arguments), its queries and     *)
(* the pars() driver.                                                      *)
(*                                                                         *)
(* Strings are sequences of one-character strings, so that starts_with     *)
(* and string equality are computed and not assumed.  Rust vectors are     *)
(* 0-based: At(v, i) reads the element the source writes v[i].  A HashMap  *)
(* is a function whose DOMAIN is its key set.  A panic (unwrap on None,    *)
(* Vec::remove out of range) ends the program with the fields as they      *)
(* were when it struck.                                                    *)
(***************************************************************************)
EXTENDS Integers, Sequences, FiniteSets, TLC

VARIABLES self, last_op, adds, nd_calls, panicked, pc, ret, out

vars == <<self, last_op, adds, nd_calls, panicked, pc, ret, out>>

\* ---------------------------------------------------------------- bounds
MaxArgs == 3
MaxAdds == 2
MaxNoDefault == 2

\* --------------------------------------------------------------- strings
S_help == <<"-", "-", "h", "e", "l", "p">>
S_version == <<"-", "-", "v", "e", "r", "s", "i", "o", "n">>
S_help_desc ==
  <<"\t", "d", "i", "s", "p", "l", "a", "y", " ", "t", "h", "i", "s", " ",
    "h", "e", "l", "p", " ", "a", "n", "d", " ", "e", "x", "i", "t">>
S_version_desc ==
  <<"o", "u", "t", "p", "u", "t", " ", "v", "e", "r", "s", "i", "o", "n", " ",
    "i", "n", "f", "o", "r", "m", "a", "t", "i", "o", "n", " ",
    "a", "n", "d", " ", "e", "x", "i", "t">>
S_empty == <<>>
S_prog == <<"p">>
S_a == <<"-", "-", "a">>
S_foo == <<"f", "o", "o">>
S_d == <<"d">>

\* tokens the process can be invoked with, after the program path
SnapTokens == {S_help, S_version, S_a, S_foo}
\* tokens and descriptions the embedding application registers
AddTokens == {S_help, S_a, S_foo}
AddDescs == {S_d, S_a}

\* ------------------------------------------------------ library helpers
At(v, i) == v[i + 1]

starts_with(s, c) == Len(s) > 0 /\ s[1] = c

contains(v, x) == \E k \in 1..Len(v) : v[k] = x

is_value_in_a_vector_str(value, vector) == \E k \in 1..Len(vector) : vector[k] = value

\* Iterator::position: 0-based index of the first match (caller checks presence)
position(v, x) == (CHOOSE k \in 1..Len(v) : v[k] = x /\ \A j \in 1..(k - 1) : v[j] # x) - 1

push(v, x) == Append(v, x)

insert(m, key, val) == [k \in (DOMAIN m) \cup {key} |-> IF k = key THEN val ELSE m[k]]

remove_entry(m, key) == [k \in (DOMAIN m) \ {key} |-> m[k]]

\* n times Vec::remove(0); a removal from an empty vector panics
RECURSIVE remove_front(_, _)
remove_front(v, n) ==
  IF n = 0 THEN [vec |-> v, panic |-> FALSE]
  ELSE IF Len(v) = 0 THEN [vec |-> v, panic |-> TRUE]
  ELSE remove_front(Tail(v), n - 1)

\* ------------------------------------------------------------ constructor
new(argv) ==
  [ arguments_passed |-> argv,
    number_of_arguments |-> Len(argv),
    arguments |-> <<S_help, S_version>>,
    default_arguments |-> TRUE,
    arg_desc_vec |-> <<S_help, S_help_desc, S_version, S_version_desc>>,
    passed_arguments_lookup |-> [k \in {S_help, S_version} |-> FALSE],
    parameters_lookup |-> [k \in {S_help, S_version} |-> S_empty],
    last_param_ok |-> FALSE ]

\* ---------------------------------------------------------------- queries
no_arguments_passed(obj) == obj.number_of_arguments = 1

passed(obj, arg) == is_value_in_a_vector_str(arg, obj.arguments_passed)

default_arguments_passed(obj) == passed(obj, S_help) \/ passed(obj, S_version)

\* variant: returns the following token without asking whether it is a flag
get_parameter_for_any_next(obj, arg) ==
  IF ~contains(obj.arguments_passed, arg)
  THEN [val |-> S_empty, panic |-> TRUE]
  ELSE LET index_of_argument == position(obj.arguments_passed, arg)
           index_of_parameter == index_of_argument + 1
       IN IF index_of_parameter < Len(obj.arguments_passed)
          THEN [val |-> At(obj.arguments_passed, index_of_parameter), panic |-> FALSE]
          ELSE [val |-> S_empty, panic |-> FALSE]

\* result [val, panic]: position(..).unwrap() panics when arg was not passed
get_parameter_for(obj, arg) ==
  IF ~contains(obj.arguments_passed, arg)
  THEN [val |-> S_empty, panic |-> TRUE]
  ELSE LET index_of_argument == position(obj.arguments_passed, arg)
           index_of_parameter == index_of_argument + 1
       IN IF index_of_parameter < Len(obj.arguments_passed)
             /\ ~contains(obj.arguments, At(obj.arguments_passed, index_of_parameter))
          THEN [val |-> At(obj.arguments_passed, index_of_parameter), panic |-> FALSE]
          ELSE [val |-> S_empty, panic |-> FALSE]

\* variant: a bare value is checked against itself instead of its predecessor
RECURSIVE wrong_arguments_scan_same_index(_, _, _)
wrong_arguments_scan_same_index(obj, i, loop_end) ==
  IF i >= loop_end THEN FALSE
  ELSE IF starts_with(At(obj.arguments_passed, i), "-")
       THEN IF ~contains(obj.arguments, At(obj.arguments_passed, i))
            THEN TRUE
            ELSE wrong_arguments_scan_same_index(obj, i + 1, loop_end)
       ELSE IF ~contains(obj.arguments, At(obj.arguments_passed, i))
            THEN TRUE
            ELSE wrong_arguments_scan_same_index(obj, i + 1, loop_end)

RECURSIVE wrong_arguments_scan(_, _, _)
wrong_arguments_scan(obj, i, loop_end) ==
  IF i >= loop_end THEN FALSE
  ELSE IF starts_with(At(obj.arguments_passed, i), "-")
       THEN IF ~contains(obj.arguments, At(obj.arguments_passed, i))
            THEN TRUE
            ELSE wrong_arguments_scan(obj, i + 1, loop_end)
       ELSE IF ~contains(obj.arguments, At(obj.arguments_passed, i - 1))
            THEN TRUE
            ELSE wrong_arguments_scan(obj, i + 1, loop_end)

\* variant: last_param_ok is ignored
wrong_arguments_passed_whole_range(obj) ==
  wrong_arguments_scan(obj, 1, obj.number_of_arguments)

wrong_arguments_passed(obj) ==
  LET loop_end == IF obj.last_param_ok
                  THEN obj.number_of_arguments - 1
                  ELSE obj.number_of_arguments
  IN wrong_arguments_scan(obj, 1, loop_end)

\* --------------------------------------------------------------- mutation
\* the loop of lookup_update from the k-th flag on; result [obj, panic]
RECURSIVE lookup_update_from(_, _)
lookup_update_from(obj, k) ==
  IF k > Len(obj.arguments) THEN [obj |-> obj, panic |-> FALSE]
  ELSE LET arg == obj.arguments[k]
       IN IF ~contains(obj.arguments_passed, arg)
          THEN lookup_update_from(obj, k + 1)
          ELSE IF arg \notin DOMAIN obj.passed_arguments_lookup
          THEN [obj |-> obj, panic |-> TRUE]
          ELSE LET o1 == [obj EXCEPT !.passed_arguments_lookup[arg] = TRUE]
               IN IF arg \notin DOMAIN o1.parameters_lookup
                  THEN [obj |-> o1, panic |-> TRUE]
                  ELSE LET p == get_parameter_for(o1, arg)
                       IN IF p.panic
                          THEN [obj |-> o1, panic |-> TRUE]
                          ELSE lookup_update_from(
                                 [o1 EXCEPT !.parameters_lookup[arg] = p.val], k + 1)

lookup_update(obj) == lookup_update_from(obj, 1)

add_argument(obj, argument, description) ==
  LET o1 == [obj EXCEPT !.arguments = push(@, argument)]
      o2 == [o1 EXCEPT !.arg_desc_vec = push(push(@, argument), description)]
      o3 == [o2 EXCEPT !.passed_arguments_lookup = insert(@, argument, FALSE)]
      o4 == [o3 EXCEPT !.parameters_lookup = insert(@, argument, S_empty)]
  IN lookup_update(o4)

\* variant: two description entries are removed instead of four
no_default_arguments_two_descs(obj) ==
  LET r1 == remove_front(obj.arguments, 2)
      o1 == [obj EXCEPT !.arguments = r1.vec]
      r2 == remove_front(o1.arg_desc_vec, 2)
      o2 == [o1 EXCEPT !.arg_desc_vec = r2.vec]
      o3 == [o2 EXCEPT
               !.passed_arguments_lookup = remove_entry(remove_entry(@, S_help), S_version),
               !.parameters_lookup = remove_entry(remove_entry(@, S_help), S_version),
               !.default_arguments = FALSE]
  IN IF r1.panic THEN [obj |-> o1, panic |-> TRUE]
     ELSE IF r2.panic THEN [obj |-> o2, panic |-> TRUE]
     ELSE [obj |-> o3, panic |-> FALSE]

no_default_arguments(obj) ==
  LET r1 == remove_front(obj.arguments, 2)
      o1 == [obj EXCEPT !.arguments = r1.vec]
      r2 == remove_front(o1.arg_desc_vec, 4)
      o2 == [o1 EXCEPT !.arg_desc_vec = r2.vec]
      o3 == [o2 EXCEPT
               !.passed_arguments_lookup = remove_entry(remove_entry(@, S_help), S_version),
               !.parameters_lookup = remove_entry(remove_entry(@, S_help), S_version),
               !.default_arguments = FALSE]
  IN IF r1.panic THEN [obj |-> o1, panic |-> TRUE]
     ELSE IF r2.panic THEN [obj |-> o2, panic |-> TRUE]
     ELSE [obj |-> o3, panic |-> FALSE]

\* ----------------------------------------------------------------- output
\* the lines printed after "Possible options:", each <<flag, description>>
\* or <<flag>> when the flag has no entry in arg_desc_vec
display_help_options(obj) ==
  [k \in 1..Len(obj.arguments) |->
     LET arg == obj.arguments[k]
     IN IF contains(obj.arg_desc_vec, arg)
        THEN LET desc_index == position(obj.arg_desc_vec, arg) + 1
             IN <<arg, At(obj.arg_desc_vec, desc_index)>>
        ELSE <<arg>>]

display_help_screen(obj) == <<[kind |-> "help", options |-> display_help_options(obj)]>>

display_version(obj) == <<[kind |-> "version"]>>

display_error_message(obj, err_type, additional) ==
  IF err_type = "no_such_option"
  THEN <<[kind |-> "error", option |-> additional, prog |-> At(obj.arguments_passed, 0)]>>
  ELSE <<>>

\* variant: an unknown '-' token is let through
RECURSIVE pars_scan_dash_unchecked(_, _, _)
pars_scan_dash_unchecked(obj, i, loop_end) ==
  IF i >= loop_end THEN <<>>
  ELSE IF starts_with(At(obj.arguments_passed, i), "-")
       THEN pars_scan_dash_unchecked(obj, i + 1, loop_end)
       ELSE IF ~is_value_in_a_vector_str(At(obj.arguments_passed, i - 1), obj.arguments)
            THEN display_error_message(obj, "no_such_option", At(obj.arguments_passed, i))
            ELSE pars_scan_dash_unchecked(obj, i + 1, loop_end)

\* the validation loop of pars from index i on: the output of the first
\* violation, or <<>> when the scan completes
RECURSIVE pars_scan(_, _, _)
pars_scan(obj, i, loop_end) ==
  IF i >= loop_end THEN <<>>
  ELSE IF starts_with(At(obj.arguments_passed, i), "-")
       THEN IF ~contains(obj.arguments, At(obj.arguments_passed, i))
            THEN display_error_message(obj, "no_such_option", At(obj.arguments_passed, i))
            ELSE pars_scan(obj, i + 1, loop_end)
       ELSE IF ~is_value_in_a_vector_str(At(obj.arguments_passed, i - 1), obj.arguments)
            THEN display_error_message(obj, "no_such_option", At(obj.arguments_passed, i))
            ELSE pars_scan(obj, i + 1, loop_end)

\* variant: help and version are handled although the built-ins were disabled
pars_defaults_always(obj) ==
  IF no_arguments_passed(obj)
  THEN [ret |-> 0, out |-> <<>>]
  ELSE LET loop_end == IF obj.last_param_ok
                       THEN obj.number_of_arguments - 1
                       ELSE obj.number_of_arguments
           err == pars_scan(obj, 1, loop_end)
       IN IF err # <<>>
          THEN [ret |-> 1, out |-> err]
          ELSE [ret |-> 0,
                out |-> (IF passed(obj, S_help) THEN display_help_screen(obj) ELSE <<>>)
                        \o (IF passed(obj, S_version) THEN display_version(obj) ELSE <<>>)]

\* result [ret, out]
pars(obj) ==
  IF no_arguments_passed(obj)
  THEN [ret |-> 0, out |-> <<>>]
  ELSE LET loop_end == IF obj.last_param_ok
                       THEN obj.number_of_arguments - 1
                       ELSE obj.number_of_arguments
           err == pars_scan(obj, 1, loop_end)
       IN IF err # <<>>
          THEN [ret |-> 1, out |-> err]
          ELSE [ret |-> 0,
                out |-> IF obj.default_arguments
                        THEN (IF passed(obj, S_help) THEN display_help_screen(obj) ELSE <<>>)
                             \o (IF passed(obj, S_version) THEN display_version(obj) ELSE <<>>)
                        ELSE <<>>]

\* ------------------------------------------------------------ state machine
RECURSIVE SeqsUpTo(_, _)
SeqsUpTo(S, n) ==
  IF n = 0 THEN {<<>>}
  ELSE LET shorter == SeqsUpTo(S, n - 1)
       IN shorter \cup {Append(s, x) : s \in shorter, x \in S}

Snapshots == {<<S_prog>> \o s : s \in SeqsUpTo(SnapTokens, MaxArgs)}

Init ==
  /\ self \in {new(argv) : argv \in Snapshots}
  /\ last_op = "new"
  /\ adds = 0
  /\ nd_calls = 0
  /\ panicked = FALSE
  /\ pc = "main"
  /\ ret = -1
  /\ out = <<>>

Live == pc = "main" /\ ~panicked

AddArgument ==
  /\ Live
  /\ adds < MaxAdds
  /\ \E argument \in AddTokens, description \in AddDescs :
       LET r == add_argument(self, argument, description)
       IN /\ self' = r.obj
          /\ panicked' = r.panic
  /\ last_op' = "add_argument"
  /\ adds' = adds + 1
  /\ UNCHANGED <<nd_calls, pc, ret, out>>

NoDefaultArguments ==
  /\ Live
  /\ nd_calls < MaxNoDefault
  /\ LET r == no_default_arguments(self)
     IN /\ self' = r.obj
        /\ panicked' = r.panic
  /\ last_op' = "no_default_arguments"
  /\ nd_calls' = nd_calls + 1
  /\ UNCHANGED <<adds, pc, ret, out>>

\* the caller assigns the public field last_param_ok
SetLastParamOk ==
  /\ Live
  /\ \E b \in BOOLEAN :
       /\ b # self.last_param_ok
       /\ self' = [self EXCEPT !.last_param_ok = b]
  /\ last_op' = "set_last_param_ok"
  /\ UNCHANGED <<adds, nd_calls, panicked, pc, ret, out>>

\* std::process::exit(args.pars())
ParsExit ==
  /\ Live
  /\ LET r == pars(self)
     IN /\ ret' = r.ret
        /\ out' = r.out
  /\ pc' = "exited"
  /\ last_op' = "pars"
  /\ UNCHANGED <<self, adds, nd_calls, panicked>>

Next == AddArgument \/ NoDefaultArguments \/ SetLastParamOk \/ ParsExit

Spec == Init /\ [][Next]_vars
\* ------------------------------------------------------------ vocabulary
Registered(obj, t) == \E k \in 1..Len(obj.arguments) : obj.arguments[k] = t

InSnapshot(obj, t) == \E k \in 1..Len(obj.arguments_passed) : obj.arguments_passed[k] = t

IsDash(t) == Len(t) > 0 /\ t[1] = "-"

\* indices (0-based, as in the source) of the snapshot after the program path
ArgIndices(obj) == 1..(Len(obj.arguments_passed) - 1)

\* indices the validation pass looks at
ScannedIndices(obj) ==
  IF obj.last_param_ok THEN 1..(Len(obj.arguments_passed) - 2) ELSE ArgIndices(obj)

\* the token at index i breaks the validation rule
Invalid(obj, i) ==
  IF IsDash(At(obj.arguments_passed, i))
  THEN ~Registered(obj, At(obj.arguments_passed, i))
  ELSE ~Registered(obj, At(obj.arguments_passed, i - 1))

ValidationFails(obj) == \E i \in ScannedIndices(obj) : Invalid(obj, i)

FirstInvalid(obj) ==
  CHOOSE i \in ScannedIndices(obj) :
    Invalid(obj, i) /\ \A j \in ScannedIndices(obj) : j < i => ~Invalid(obj, j)

\* indices holding a '-' token that is not in the registry
UnknownDashIndices(obj) ==
  {i \in ArgIndices(obj) :
     IsDash(At(obj.arguments_passed, i)) /\ ~Registered(obj, At(obj.arguments_passed, i))}

ErrorNaming(obj, t) == <<[kind |-> "error", option |-> t, prog |-> At(obj.arguments_passed, 0)]>>

Kinds(o) == [k \in 1..Len(o) |-> o[k].kind]

\* the token after the first occurrence of t, unless absent or a registered flag
ExpectedParameter(obj, t) ==
  LET first == CHOOSE k \in 1..Len(obj.arguments_passed) :
                 obj.arguments_passed[k] = t
                 /\ \A j \in 1..(k - 1) : obj.arguments_passed[j] # t
  IN IF first < Len(obj.arguments_passed)
        /\ ~Registered(obj, obj.arguments_passed[first + 1])
     THEN obj.arguments_passed[first + 1]
     ELSE S_empty

BuiltinFlags == <<S_help, S_version>>

BuiltinDescs == <<S_help, S_help_desc, S_version, S_version_desc>>

\* a no_default_arguments step that took away the built-in pair and nothing else
RemovedExactlyBuiltins ==
  /\ self.arguments = BuiltinFlags \o self'.arguments
  /\ self.arg_desc_vec = BuiltinDescs \o self'.arg_desc_vec

\* ------------------------------------------------------------------ claims

\* C1: after construction and after any sequence of add_argument and
\* no_default_arguments calls, the key sets of passed_arguments_lookup and
\* parameters_lookup both equal the set of tokens in the flag list.
C1_LookupKeysEqualFlagList ==
  ~panicked =>
    /\ DOMAIN self.passed_arguments_lookup = {self.arguments[k] : k \in 1..Len(self.arguments)}
    /\ DOMAIN self.parameters_lookup = {self.arguments[k] : k \in 1..Len(self.arguments)}

\* C2 (as stated): whenever the snapshot holds exactly one '-' token absent
\* from the registry, at any index and with any last_param_ok, pars() returns
\* 1 and the error names that token.
C2_Original ==
  (pc = "exited" /\ Cardinality(UnknownDashIndices(self)) = 1) =>
    LET u == CHOOSE i \in UnknownDashIndices(self) : TRUE
    IN ret = 1 /\ out = ErrorNaming(self, At(self.arguments_passed, u))

\* C2 (amended): when the single unregistered '-' token lies at a scanned
\* index, pars() returns 1 and emits exactly one error, naming the first
\* scanned token that breaks the validation rule; that is the unregistered
\* token itself whenever no scanned token before it is invalid.
C2_UnknownOptionInScanRejected ==
  (pc = "exited" /\ Cardinality(UnknownDashIndices(self)) = 1) =>
    LET u == CHOOSE i \in UnknownDashIndices(self) : TRUE
    IN u \in ScannedIndices(self) =>
         /\ ret = 1
         /\ out = ErrorNaming(self, At(self.arguments_passed, FirstInvalid(self)))
         /\ (\A j \in ScannedIndices(self) : j < u => ~Invalid(self, j))
              => out = ErrorNaming(self, At(self.arguments_passed, u))

C2_Witness ==
  /\ pc = "exited"
  /\ Cardinality(UnknownDashIndices(self)) = 1
  /\ \E u \in UnknownDashIndices(self) :
       /\ u \in ScannedIndices(self)
       /\ u >= 2
       /\ out = ErrorNaming(self, At(self.arguments_passed, u))
  /\ ret = 1

\* C3 (as stated): when every token after the program path is a registered
\* flag or a non-'-' token that directly follows a registered flag,
\* wrong_arguments_passed() is false and pars() returns 0.
C3_Original ==
  (pc = "exited"
   /\ \A i \in ArgIndices(self) :
        \/ Registered(self, At(self.arguments_passed, i))
        \/ /\ ~IsDash(At(self.arguments_passed, i))
           /\ Registered(self, At(self.arguments_passed, i - 1)))
  => (~wrong_arguments_passed(self) /\ ret = 0)

\* C3 (amended): when every token after the program path is a registered
\* flag that starts with '-' or a non-'-' token that directly follows a
\* registered flag, wrong_arguments_passed() is false and pars() returns 0.
C3_LegalArgumentsAccepted ==
  (pc = "exited"
   /\ \A i \in ArgIndices(self) :
        \/ /\ IsDash(At(self.arguments_passed, i))
           /\ Registered(self, At(self.arguments_passed, i))
        \/ /\ ~IsDash(At(self.arguments_passed, i))
           /\ Registered(self, At(self.arguments_passed, i - 1)))
  => (~wrong_arguments_passed(self) /\ ret = 0)

C3_Witness ==
  /\ pc = "exited"
  /\ Len(self.arguments_passed) >= 3
  /\ \A i \in ArgIndices(self) :
        \/ /\ IsDash(At(self.arguments_passed, i))
           /\ Registered(self, At(self.arguments_passed, i))
        \/ /\ ~IsDash(At(self.arguments_passed, i))
           /\ Registered(self, At(self.arguments_passed, i - 1))
  /\ \E i \in ArgIndices(self) : ~IsDash(At(self.arguments_passed, i))
  /\ ~self.last_param_ok
  /\ ret = 0

\* C4: pars() returns 1 exactly when wrong_arguments_passed() is true and 0
\* otherwise, for every registry, snapshot and value of last_param_ok.
C4_ParsAgreesWithWrongArgumentsPassed ==
  pc = "exited" =>
    /\ ret \in {0, 1}
    /\ (ret = 1) <=> wrong_arguments_passed(self)

C4_Witness ==
  /\ pc = "exited"
  /\ ret = 1
  /\ wrong_arguments_passed(self)
  /\ self.last_param_ok
  /\ ~IsDash(At(self.arguments_passed, 1))

\* C5: for every registered flag t present in the snapshot, passed(t) is true
\* and get_parameter_for(t) returns the token directly after the first
\* occurrence of t, or the empty string when that token is a registered flag
\* or there is none.
C5_ParameterIsFollowingToken ==
  ~panicked =>
    \A k \in 1..Len(self.arguments) :
      LET t == self.arguments[k]
      IN InSnapshot(self, t) =>
           /\ passed(self, t)
           /\ get_parameter_for(self, t) = [val |-> ExpectedParameter(self, t), panic |-> FALSE]

C5_Witness ==
  /\ ~panicked
  /\ adds > 0
  /\ Registered(self, S_a)
  /\ InSnapshot(self, S_a)
  /\ get_parameter_for(self, S_a).val = S_foo
  /\ \E k \in 1..Len(self.arguments) :
       /\ InSnapshot(self, self.arguments[k])
       /\ get_parameter_for(self, self.arguments[k]).val = S_empty

\* C6: in every reachable state, for every registered flag t,
\* passed_arguments_lookup[t] is true iff t occurs in the snapshot, and
\* parameters_lookup[t] is the token following t when that token exists and
\* is not a currently registered flag, and the empty string otherwise.
C6_LookupsMirrorSnapshot ==
  ~panicked =>
    \A k \in 1..Len(self.arguments) :
      LET t == self.arguments[k]
      IN /\ t \in DOMAIN self.passed_arguments_lookup
         /\ t \in DOMAIN self.parameters_lookup
         /\ self.passed_arguments_lookup[t] <=> InSnapshot(self, t)
         /\ self.parameters_lookup[t] =
              IF InSnapshot(self, t) THEN ExpectedParameter(self, t) ELSE S_empty

\* C7 (as stated): a no_default_arguments() call made after custom flags
\* were added removes entries other than the built-in --help/--version pair
\* from the flag list and the description storage.
C7_Original ==
  [][(last_op' = "no_default_arguments" /\ adds > 0) => ~RemovedExactlyBuiltins]_vars

\* C7 (amended): the first no_default_arguments() call, also when custom
\* flags were added before it, removes exactly the built-in --help/--version
\* entries from the flag list and the description storage and keeps every
\* custom entry, in order.
C7_FirstCallRemovesExactlyBuiltins ==
  [][(last_op' = "no_default_arguments" /\ self.default_arguments)
       => (~panicked' /\ RemovedExactlyBuiltins)]_vars

C7_Witness ==
  /\ last_op = "no_default_arguments"
  /\ nd_calls = 1
  /\ adds > 0
  /\ ~panicked
  /\ Len(self.arguments) = adds
  /\ ~self.default_arguments

\* C8: a pars() call that fails validation emits only the error message and
\* returns 1; otherwise it returns 0 and, with the built-ins enabled and at
\* least one argument passed, emits the help screen iff --help is in the
\* snapshot and the version line iff --version is, help first; with the
\* built-ins disabled it emits nothing.
C8_ParsOutcomes ==
  pc = "exited" =>
    IF ValidationFails(self)
    THEN ret = 1 /\ Kinds(out) = <<"error">>
    ELSE /\ ret = 0
         /\ Kinds(out) =
              IF self.default_arguments /\ Len(self.arguments_passed) > 1
              THEN (IF InSnapshot(self, S_help) THEN <<"help">> ELSE <<>>)
                   \o (IF InSnapshot(self, S_version) THEN <<"version">> ELSE <<>>)
              ELSE <<>>

C8_Witness ==
  /\ pc = "exited"
  /\ ret = 0
  /\ Kinds(out) = <<"help", "version">>
  /\ adds > 0

\* C9: display_help_screen() prints one line per flag-list entry, in
\* registration order, showing the flag with the description it was
\* registered with (arg_desc_vec holds each entry's token and description
\* at positions 2k-1 and 2k).
C9_HelpShowsRegisteredDescriptions ==
  ~panicked =>
    /\ Len(self.arg_desc_vec) = 2 * Len(self.arguments)
    /\ display_help_options(self) =
         [k \in 1..Len(self.arguments) |->
            <<self.arguments[k], self.arg_desc_vec[2 * k]>>]

\* C10: with at most one no_default_arguments() call, no sequence of
\* add_argument / no_default_arguments calls panics.
C10_NoPanic ==
  nd_calls <= 1 => ~panicked

====
